---- MODULE Spec2Model ----
(***************************************************************************)
(* Model of the container inspector / editor of ComsoleLauncher:           *)
(*   src/utils/mph_saver.py   MphSaver.save_modified_mph                    *)
(*   src/utils/mph_parser.py  MphParser.parse_parameters,                   *)
(*                            MphParser.load_parameters_from_mph            *)
(*                                                                         *)
(* Text is a sequence of tokens.  Every token stands for a fixed literal   *)
(* string; the tokens are chosen so that every literal of the two regular  *)
(* expressions of the source begins and ends on a token boundary, with one *)
(* exception that is modelled explicitly: the literal  name=  also ends    *)
(* the token " tagname=".                                                  *)
(***************************************************************************)
EXTENDS Integers, Sequences, FiniteSets, TLC

\* ------------------------------------------------------------------ tokens
Q == "\""
GT == ">"
LF == "LF"
CRLF == "CRLF"
LtExpressions == "<expressions"
LtOther == "<other"
KName == " name="
KTagName == " tagname="
KExpr == " expr="
KDescr == " descr="
BadByte == "0xFF"

\* tokens whose text ends with the literal  name=
NameKeyToks == {KName, KTagName}

\* number of characters a token stands for (only the tokens that can occur
\* inside an attribute value, and the blobs that give a member its size,
\* matter)
TokLen(t) ==
    CASE t = "Triangle" -> 8
      [] t = "X99" -> 99
      [] t = CRLF -> 2
      [] t = "Blob1023" -> 1023
      [] t = "Blob1024" -> 1024
      [] t = "Blob1280" -> 1280
      [] OTHER -> 1

RECURSIVE StrLen(_)
StrLen(s) == IF s = <<>> THEN 0 ELSE TokLen(Head(s)) + StrLen(Tail(s))

Max(S) == CHOOSE x \in S : \A y \in S : y <= x
Min(S) == CHOOSE x \in S : \A y \in S : x <= y

\* position of the first quote at or after position p, 0 when there is none:
\* the end of a  [^"]*  run followed by the literal "
NextQuote(text, p) ==
    LET qs == {q \in p..Len(text) : text[q] = Q}
    IN  IF qs = {} THEN 0 ELSE Min(qs)

\* TRUE when text[from..to] holds no '>' : the run  [^>]*  can cover it
NoGt(text, from, to) == \A k \in from..to : text[k] # GT

\* the literal  key="  sits at position k
KeyAt(text, k, keys) ==
    /\ k + 1 <= Len(text)
    /\ text[k] \in keys
    /\ text[k + 1] = Q

\* ------------------------------------------------- mph_saver.py lines 50-52
\* pattern  (name="N"[^>]*expr=")([^"]*)(")  tried at position i.
\* The result is the set of positions k of the literal  expr="  that give a
\* match; the greedy  [^>]*  takes the largest.
PatchExprStarts(text, i, n) ==
    IF /\ i + 3 <= Len(text)
       /\ text[i] \in NameKeyToks
       /\ text[i + 1] = Q
       /\ text[i + 2] = n
       /\ text[i + 3] = Q
    THEN {k \in (i + 4)..Len(text) :
            /\ KeyAt(text, k, {KExpr})
            /\ NoGt(text, i + 4, k - 1)
            /\ NextQuote(text, k + 2) # 0}
    ELSE {}

\* re.sub with count=1: only the first match is replaced
ReSub_first(text, pos, n, v) ==
    LET starts == {i \in pos..Len(text) : PatchExprStarts(text, i, n) # {}}
    IN  IF starts = {}
        THEN SubSeq(text, pos, Len(text))
        ELSE LET i == Min(starts)
                 k == Max(PatchExprStarts(text, i, n))
                 q == NextQuote(text, k + 2)
             IN  SubSeq(text, pos, k + 1) \o v \o SubSeq(text, q, Len(text))

\* a replacement that keeps group 2 behind the new value
RECURSIVE ReSub_keep(_, _, _, _)
ReSub_keep(text, pos, n, v) ==
    LET starts == {i \in pos..Len(text) : PatchExprStarts(text, i, n) # {}}
    IN  IF starts = {}
        THEN SubSeq(text, pos, Len(text))
        ELSE LET i == Min(starts)
                 k == Max(PatchExprStarts(text, i, n))
                 q == NextQuote(text, k + 2)
             IN  SubSeq(text, pos, k + 1) \o v \o SubSeq(text, k + 2, q)
                   \o ReSub_keep(text, q + 1, n, v)

\* re.sub(pattern, replacement, content) from position pos on: every
\* non-overlapping match, left to right, has its group 2 replaced by the new
\* value (count is left at its default 0 = replace all).
RECURSIVE ReSub(_, _, _, _)
ReSub(text, pos, n, v) ==
    LET starts == {i \in pos..Len(text) : PatchExprStarts(text, i, n) # {}}
    IN  IF starts = {}
        THEN SubSeq(text, pos, Len(text))
        ELSE LET i == Min(starts)
                 k == Max(PatchExprStarts(text, i, n))
                 q == NextQuote(text, k + 2)
             IN  SubSeq(text, pos, k + 1) \o v \o <<Q>> \o ReSub(text, q + 1, n, v)

\* the loop over parameters.items(): the edits are applied one after the
\* other, in the order of the dictionary
RECURSIVE PatchAll(_, _)
PatchAll(text, edits) ==
    IF edits = <<>>
    THEN text
    ELSE PatchAll(ReSub(text, 1, Head(edits).name, Head(edits).value), Tail(edits))

\* ------------------------------------------------ mph_parser.py lines 30-31
\* pattern <expressions[^>]*name="([^"]*)"[^>]*expr="([^"]*)"[^>]*descr="([^"]*)"
\* tried at position i.  Each  [^>]*  is greedy: the match uses the largest
\* position of  name="  for which the rest matches, then the largest position
\* of  expr=" , then the largest position of  descr=" .
DescrStarts(text, from) ==
    {k \in from..Len(text) :
        /\ KeyAt(text, k, {KDescr})
        /\ NoGt(text, from, k - 1)
        /\ NextQuote(text, k + 2) # 0}

ExprStarts(text, from) ==
    {k \in from..Len(text) :
        /\ KeyAt(text, k, {KExpr})
        /\ NoGt(text, from, k - 1)
        /\ NextQuote(text, k + 2) # 0
        /\ DescrStarts(text, NextQuote(text, k + 2) + 1) # {}}

NameStarts(text, i) ==
    IF i <= Len(text) /\ text[i] = LtExpressions
    THEN {k \in (i + 1)..Len(text) :
            /\ KeyAt(text, k, NameKeyToks)
            /\ NoGt(text, i + 1, k - 1)
            /\ NextQuote(text, k + 2) # 0
            /\ ExprStarts(text, NextQuote(text, k + 2) + 1) # {}}
    ELSE {}

\* the match at position i: the three groups and the position after it
ParamMatch(text, i) ==
    LET k1 == Max(NameStarts(text, i))
        q1 == NextQuote(text, k1 + 2)
        k2 == Max(ExprStarts(text, q1 + 1))
        q2 == NextQuote(text, k2 + 2)
        k3 == Max(DescrStarts(text, q2 + 1))
        q3 == NextQuote(text, k3 + 2)
    IN  [name  |-> SubSeq(text, k1 + 2, q1 - 1),
         value |-> SubSeq(text, k2 + 2, q2 - 1),
         descr |-> SubSeq(text, k3 + 2, q3 - 1),
         valueAt |-> k2 + 2,
         next  |-> q3 + 1]

\* re.findall(pattern, xml_content): the non-overlapping matches, in order
RECURSIVE FindAll(_, _)
FindAll(text, pos) ==
    LET starts == {i \in pos..Len(text) : NameStarts(text, i) # {}}
    IN  IF starts = {}
        THEN <<>>
        ELSE LET m == ParamMatch(text, Min(starts))
             IN  <<m>> \o FindAll(text, m.next)

\* the exclusion rules of line 36
LongExpr == 100

\* the name currentiter not excluded
Keep_anyname(m) ==
    /\ ~(m.value # <<>> /\ Head(m.value) = "Triangle")
    /\ StrLen(m.value) < LongExpr

\* a value of exactly LongExpr characters kept
Keep_le(m) ==
    /\ m.name # <<"currentiter">>
    /\ ~(m.value # <<>> /\ Head(m.value) = "Triangle")
    /\ StrLen(m.value) <= LongExpr

Keep(m) ==
    /\ m.name # <<"currentiter">>
    /\ ~(m.value # <<>> /\ Head(m.value) = "Triangle")
    /\ StrLen(m.value) < LongExpr

RECURSIVE Triples(_)
Triples(ms) ==
    IF ms = <<>>
    THEN <<>>
    ELSE (IF Keep(Head(ms))
          THEN <<[name |-> Head(ms).name, value |-> Head(ms).value,
                  descr |-> Head(ms).descr]>>
          ELSE <<>>) \o Triples(Tail(ms))

parse_parameters(xml_content) == Triples(FindAll(xml_content, 1))


\* ------------------------------------------------------------ text files
\* Path.read_text(encoding='utf-8'): the bytes are decoded and, the file
\* being opened in text mode, every line ending is translated to '\n'
Decodable(bytes) == \A k \in 1..Len(bytes) : bytes[k] # BadByte

ReadText(bytes) == [k \in 1..Len(bytes) |-> IF bytes[k] = CRLF THEN LF ELSE bytes[k]]

\* Path.write_text(content, encoding='utf-8'): every '\n' is written as the
\* line separator of the platform
WriteText(text, sep) == [k \in 1..Len(text) |-> IF text[k] = LF THEN sep ELSE text[k]]

\* ------------------------------------------------------------------ paths
None == "None"
Dot == "."
DmodelName == <<"dmodel.xml">>

\* pathlib: the suffix starts at the last dot of the name, unless that dot is
\* the first or the last character of the name
LastDot(name) ==
    LET ds == {k \in 1..Len(name) : name[k] = Dot}
    IN  IF ds = {} THEN 0 ELSE Max(ds)

HasSuffix(name) == 1 < LastDot(name) /\ LastDot(name) < Len(name)

\* the whole name used where the stem is meant
Stem_name(name) == name


Stem(name) == IF HasSuffix(name) THEN SubSeq(name, 1, LastDot(name) - 1) ELSE name

Suffix(name) == IF HasSuffix(name) THEN SubSeq(name, LastDot(name), Len(name)) ELSE <<>>

\* mph_path.parent / f"{mph_path.stem}_backup.mph"
BackupPath(p) == [parent |-> p.parent, name |-> Stem(p.name) \o <<"_backup", Dot, "mph">>]

\* mph_path.parent / f"{mph_path.stem}_modified.mph"
ModifiedPath(p) == [parent |-> p.parent, name |-> Stem(p.name) \o <<"_modified", Dot, "mph">>]

\* ------------------------------------------------------- files and archives
\* A file on disk is an archive (kind "zip"), something that is not an
\* archive (kind "raw"), or an archive whose writing was broken off (kind
\* "partial").  A member has a name (the sequence of its path components), is
\* a directory entry or a regular file, and carries its bytes.
Zip(ms) == [kind |-> "zip", members |-> ms]
NotZip == [kind |-> "raw", members |-> <<>>]
Partial(ms) == [kind |-> "partial", members |-> ms]

FileMember(n, bytes) == [name |-> n, dir |-> FALSE, data |-> bytes]
DirMember(n) == [name |-> n, dir |-> TRUE, data |-> <<>>]

NoDir == "NoDir"
EmptyTree == [p \in {} |-> DirMember(<<>>)]

Put(f, k, v) == [x \in DOMAIN f \cup {k} |-> IF x = k THEN v ELSE f[x]]

\* the proper, non-empty prefixes of a member name: its parent directories
Parents(n) == {SubSeq(n, 1, k) : k \in 1..(Len(n) - 1)}

\* ZipFile.extractall(temp_path): the members are extracted in archive order;
\* a directory entry makes a directory, a file makes its parent directories
\* and then the file, replacing what an earlier member of that name left
RECURSIVE ExtractAll(_, _)
ExtractAll(ms, tree) ==
    IF ms = <<>>
    THEN tree
    ELSE LET m == Head(ms)
             withParents == [p \in DOMAIN tree \cup Parents(m.name) |->
                                IF p \in DOMAIN tree THEN tree[p] ELSE DirMember(p)]
         IN  ExtractAll(Tail(ms), Put(withParents, m.name, m))

\* dmodel.xml looked up anywhere in the scratch tree
FindDmodel_anywhere(tree) == {p \in DOMAIN tree : p[Len(p)] = "dmodel.xml"}

\* temp_path / 'dmodel.xml', when it exists
FindDmodel(tree) == {p \in DOMAIN tree : p = DmodelName}

\* rglob without the is_file() filter
FilesOf_all(tree) == DOMAIN tree

\* temp_path.rglob('*') filtered by is_file()
FilesOf(tree) == {p \in DOMAIN tree : ~tree[p].dir}

\* the original moved to the backup path instead of copied
Copy2_move(files, src, dst) == [x \in (DOMAIN files \cup {dst}) \ {src} |-> IF x = dst THEN files[src] ELSE files[x]]

\* an existing backup is kept
Copy2_keep(files, src, dst) == IF dst \in DOMAIN files THEN files ELSE Put(files, dst, files[src])

\* shutil.copy2(src, dst): dst is created or overwritten with the bytes of src
Copy2(files, src, dst) == Put(files, dst, files[src])

\* MphParser.load_parameters_from_mph: any exception gives the empty list
DmodelMembers(file) == {k \in 1..Len(file.members) :
                          file.members[k].name = DmodelName /\ ~file.members[k].dir}

\* dmodel.xml decoded with errors='ignore'
load_parameters_from_mph_lenient(files, p) ==
    IF p \notin DOMAIN files THEN <<>>
    ELSE IF files[p].kind # "zip" THEN <<>>
    ELSE IF DmodelMembers(files[p]) = {} THEN <<>>
    ELSE parse_parameters(SelectSeq(files[p].members[Max(DmodelMembers(files[p]))].data,
                                    LAMBDA b : b # BadByte))

load_parameters_from_mph(files, p) ==
    IF p \notin DOMAIN files THEN <<>>
    ELSE IF files[p].kind # "zip" THEN <<>>
    ELSE IF DmodelMembers(files[p]) = {} THEN <<>>
    ELSE LET bytes == files[p].members[Max(DmodelMembers(files[p]))].data
         IN  IF Decodable(bytes) THEN parse_parameters(bytes) ELSE <<>>

\* the exception load_parameters_from_mph catches at line 162, "none" when
\* lines 159-161 run through
ParamsError(files, p) ==
    IF p \notin DOMAIN files THEN "FileNotFoundError"
    ELSE IF files[p].kind # "zip" THEN "BadZipFile"
    ELSE IF DmodelMembers(files[p]) = {} THEN "KeyError"
    ELSE IF ~Decodable(files[p].members[Max(DmodelMembers(files[p]))].data)
         THEN "UnicodeDecodeError"
    ELSE "none"

\* ZipInfo.filename: the path components joined by '/', a directory entry
\* ending with '/'
Slash == "/"

Spell(c) ==
    CASE c = "dmodel.xml" -> <<"dmodel", Dot, "xml">>
      [] c = "g.mphbin" -> <<"g", Dot, "mphbin">>
      [] c = "m.json" -> <<"m", Dot, "json">>
      [] c = "modelinfo.xml" -> <<"modelinfo", Dot, "xml">>
      [] OTHER -> <<c>>

RECURSIVE JoinPath(_)
JoinPath(n) ==
    IF Len(n) = 1
    THEN Spell(n[1])
    ELSE Spell(Head(n)) \o <<Slash>> \o JoinPath(Tail(n))

FileName(m) == JoinPath(m.name) \o (IF m.dir THEN <<Slash>> ELSE <<>>)

\* str.endswith
EndsWith(s, suffix) ==
    /\ Len(suffix) <= Len(s)
    /\ SubSeq(s, Len(s) - Len(suffix) + 1, Len(s)) = suffix

\* the extension compared without its dot
HasExt_nodot(filename, ext) == EndsWith(filename, <<ext>>)

\* filename.endswith('.xml') and the like
HasExt(filename, ext) == EndsWith(filename, <<Dot, ext>>)

\* MphParser._classify_file: (type description, colour tag)
_classify_file(filename) ==
    IF HasExt(filename, "xml") THEN <<"Configuration", "xml">>
    ELSE IF HasExt(filename, "json") THEN <<"Metadata", "json">>
    ELSE IF HasExt(filename, "mphbin") THEN <<"Simulation Data", "binary">>
    ELSE IF HasExt(filename, "png") THEN <<"Preview Image", "image">>
    ELSE IF HasExt(filename, "txt") THEN <<"Text Data", "text">>
    ELSE IF HasExt(filename, "zip") THEN <<"Checkpoint", "archive">>
    ELSE <<"Data", "text">>

\* lines 59-61: sizes below one KB are shown in bytes, the others in KB
\* with one decimal
KB == 1024

\* f"{size_kb:.1f}": the tenths of a KB nearest to the size; size_kb is
\* exact in binary, so a tie goes to the even digit
Tenths(file_size) ==
    LET q == (file_size * 10) \div KB
        r == (file_size * 10) % KB
    IN  IF 2 * r > KB \/ (2 * r = KB /\ q % 2 = 1) THEN q + 1 ELSE q

\* a size of one KB still shown in bytes
size_str_le(file_size) ==
    IF file_size <= KB
    THEN [unit |-> "B", n |-> file_size]
    ELSE [unit |-> "KB", n |-> Tenths(file_size)]

size_str(file_size) ==
    IF file_size < KB
    THEN [unit |-> "B", n |-> file_size]
    ELSE [unit |-> "KB", n |-> Tenths(file_size)]

\* the exception load_file_list catches at line 73, "none" when the archive
\* opens
ListError(files, p) ==
    IF p \notin DOMAIN files THEN "FileNotFoundError"
    ELSE IF files[p].kind # "zip" THEN "BadZipFile"
    ELSE "none"

\* MphParser.load_file_list: one entry per ZipInfo of infolist(), the empty
\* list when the archive does not open
load_file_list(files, p) ==
    IF ListError(files, p) # "none"
    THEN <<>>
    ELSE [k \in 1..Len(files[p].members) |->
            LET file_info == files[p].members[k]
                class == _classify_file(FileName(file_info))
            IN  [filename |-> FileName(file_info),
                 size |-> size_str(StrLen(file_info.data)),
                 type |-> class[1],
                 tag |-> class[2]]]

\* ---- MphParser.load_model_info
\* the text of modelinfo.xml: one empty root element with attributes
LtModel == "<model"
SlashGT == "/>"
KTitle == " title="
KDescription == " description="
AttrKeys == {KTitle, KDescription, KName}
Space == " "
Whitespace == {Space, LF, CRLF}

\* bytes.decode('utf-8', errors='ignore'): what does not decode is dropped
DecodeIgnore(bytes) == SelectSeq(bytes, LAMBDA b : b # BadByte)

\* str.strip()
RECURSIVE LStrip(_)
LStrip(text) ==
    IF text # <<>> /\ Head(text) \in Whitespace THEN LStrip(Tail(text)) ELSE text

RECURSIVE RStrip(_)
RStrip(text) ==
    IF text # <<>> /\ text[Len(text)] \in Whitespace
    THEN RStrip(SubSeq(text, 1, Len(text) - 1))
    ELSE text

Strip(text) == RStrip(LStrip(text))

\* the positions of the attribute keys of the root element
AttrAt(text) == {i \in 2..(Len(text) - 1) : (i - 2) % 4 = 0}

\* ET.fromstring accepts the text: the root element is closed, every
\* attribute is  key="value"  and no attribute occurs twice
WellFormedXml(text) ==
    /\ Len(text) >= 2
    /\ text[1] = LtModel
    /\ text[Len(text)] = SlashGT
    /\ (Len(text) - 2) % 4 = 0
    /\ \A i \in AttrAt(text) :
          /\ text[i] \in AttrKeys
          /\ text[i + 1] = Q
          /\ text[i + 2] \notin {Q, GT, SlashGT, LtModel}
          /\ text[i + 3] = Q
    /\ \A i, j \in AttrAt(text) : text[i] = text[j] => i = j

NA == "N/A"

\* an absent attribute read as the empty text
RootGet_empty(text, key) ==
    IF \E i \in AttrAt(text) : text[i] = key
    THEN text[(CHOOSE i \in AttrAt(text) : text[i] = key) + 2]
    ELSE ""

\* root.get(key, 'N/A')
RootGet(text, key) ==
    IF \E i \in AttrAt(text) : text[i] = key
    THEN text[(CHOOSE i \in AttrAt(text) : text[i] = key) + 2]
    ELSE NA

\* z.read(name): the last regular-file member of that name
MembersNamed(file, n) == {k \in 1..Len(file.members) :
                            file.members[k].name = n /\ ~file.members[k].dir}

ReadMember(file, n) == file.members[Max(MembersNamed(file, n))].data

FileVersionName == <<"fileversion">>
ModelInfoName == <<"modelinfo.xml">>

\* the exception load_model_info catches at line 144, "none" when lines
\* 116-143 run through
InfoError(files, p) ==
    IF p \notin DOMAIN files THEN "FileNotFoundError"
    ELSE IF files[p].kind # "zip" THEN "BadZipFile"
    ELSE IF MembersNamed(files[p], FileVersionName) = {} THEN "KeyError"
    ELSE IF MembersNamed(files[p], ModelInfoName) = {} THEN "KeyError"
    ELSE IF ~Decodable(ReadMember(files[p], ModelInfoName)) THEN "UnicodeDecodeError"
    ELSE IF ~WellFormedXml(ReadMember(files[p], ModelInfoName)) THEN "ParseError"
    ELSE "none"

\* the .mphbin members counted as text as well
TextExts_all == {"xml", "json", "txt", "mphbin"}

\* the suffixes of line 129 and of line 131
TextExts == {"xml", "json", "txt"}
BinaryExts == {"mphbin"}

\* sum(f.file_size for f in z.infolist() if f.filename.endswith(exts))
RECURSIVE SizeOf(_, _)
SizeOf(ms, exts) ==
    IF ms = <<>>
    THEN 0
    ELSE (IF \E e \in exts : HasExt(FileName(Head(ms)), e)
          THEN StrLen(Head(ms).data)
          ELSE 0) + SizeOf(Tail(ms), exts)

\* sum(f.file_size for f in z.infolist())
RECURSIVE TotalSize(_)
TotalSize(ms) == IF ms = <<>> THEN 0 ELSE StrLen(Head(ms).data) + TotalSize(Tail(ms))

\* MphParser.load_model_info: no value (the empty sequence) on any
\* exception, else the one dictionary; the three sizes are kept in bytes,
\* their division by 1024 * 1024 being exact
load_model_info(files, p) ==
    IF InfoError(files, p) # "none"
    THEN <<>>
    ELSE LET z == files[p]
             modelinfo == ReadMember(z, ModelInfoName)
         IN  <<[version |-> Strip(DecodeIgnore(ReadMember(z, FileVersionName))),
                title |-> RootGet(modelinfo, KTitle),
                description |-> RootGet(modelinfo, KDescription),
                file_count |-> Len(z.members),
                total_size |-> TotalSize(z.members),
                text_size |-> SizeOf(z.members, TextExts),
                binary_size |-> SizeOf(z.members, BinaryExts)]>>

\* ---- MphSaver.extract_mph
\* a directory on disk and the entries below it
Dir(tree) == [kind |-> "dir", members |-> <<>>, tree |-> tree]

\* extract_dir / f"{mph_path.stem}-extracted"
ExtractPath(p, extract_dir) == [parent |-> extract_dir, name |-> Stem(p.name) \o <<"-extracted">>]

\* only the regular files counted
CountEntries_files(tree) == Cardinality(FilesOf(tree))

\* len(list(extract_path.rglob('*'))): every entry below the root, files and
\* directories alike
CountEntries(tree) == Cardinality(DOMAIN tree)

\* what extract_path holds once mkdir(exist_ok=True) has run
AfterMkdir(files, dest) == IF dest \in DOMAIN files THEN files[dest].tree ELSE EmptyTree

\* the archive opened in mode 'a': what is at the path is kept
ZipOpenW_append(files, p) ==
    IF p \in DOMAIN files /\ files[p].kind = "zip"
    THEN Put(files, p, Partial(files[p].members))
    ELSE Put(files, p, Partial(<<>>))

\* zipfile.ZipFile(new_mph, 'w', ...): the file is created, or truncated when
\* it exists, and stays incomplete until the archive is closed
ZipOpenW(files, p) == Put(files, p, Partial(<<>>))

\* ---- the parameter table of the Inspect view
\* a row of the table: its three values and its tags
Row(name, value, descr, tags) == [values |-> <<name, value, descr>>, tags |-> tags]

ModifiedTag == <<"modified">>

\* inspect_mode.py lines 302-304: one row per loaded parameter, tagged with
\* its name
RowsOf(params) ==
    [i \in 1..Len(params) |->
        Row(params[i].name, params[i].value, params[i].descr, {params[i].name})]

\* inspect_mode.py lines 330-336: params[values[0]] = values[1] for every
\* row; a dictionary keeps a key where it was first inserted and gives it the
\* value assigned last
RECURSIVE DictOf(_, _)
DictOf(rows, params) ==
    IF rows = <<>>
    THEN params
    ELSE LET key == Head(rows).values[1][1]
             at == {k \in 1..Len(params) : params[k].name = key}
         IN  DictOf(Tail(rows),
                    IF at = {}
                    THEN Append(params, [name |-> key, value |-> Head(rows).values[2]])
                    ELSE [k \in 1..Len(params) |->
                             IF k \in at
                             THEN [name |-> key, value |-> Head(rows).values[2]]
                             ELSE params[k]])

\* inspect_mode.py lines 337-338
ModifiedCount(rows) == Cardinality({i \in 1..Len(rows) : ModifiedTag \in rows[i].tags})

\* the values save_modified_mph returns
MissingMsg == "Could not find dmodel.xml in file"
MissingResult == [ok |-> FALSE, msg |-> MissingMsg, new_mph |-> None, backup_path |-> None]
Failure(e) == [ok |-> FALSE, msg |-> e, new_mph |-> None, backup_path |-> None]
Success(n, b) == [ok |-> TRUE, msg |-> "Success", new_mph |-> n, backup_path |-> b]
NoResult == [ok |-> FALSE, msg |-> "", new_mph |-> None, backup_path |-> None]

\* the scratch directory made with mkdtemp and never removed: something is
\* still there
RemoveTree_keep(tree) == "Kept"

\* TemporaryDirectory.__exit__: the scratch directory and all it holds are
\* removed
RemoveTree(tree) == NoDir

\* the result of a loader of the Inspect view: the operation, its argument,
\* the exception caught inside it ("none" if none was) and the value returned
NoView == [op |-> "none", arg |-> <<>>, error |-> "none", out |-> <<>>]

\* the exception of the backup step swallowed
OnBackupError_ignored == "repack_open"

\* an exception raised by shutil.copy2 leaves the  with  blocks and reaches
\* the  except Exception  clause: nothing after line 58 runs
OnBackupError == "cleanup"


\* ------------------------------------------------------------------ inputs
MaxDecls == 2
MaxEdits == 1

Names == {"a", "b"}
ExprTok == <<"1", "2", "3", "4">>
DescrTok == <<"d1", "d2", "d3", "d4">>

\* a declaration of dmodel.xml: an element with a  name  attribute, an  expr
\* attribute and possibly a  descr  attribute
Decls == [tag : {LtExpressions, LtOther}, name : Names, descr : BOOLEAN]

DeclSeqs == UNION {[1..n -> Decls] : n \in 0..MaxDecls}

\* the i-th declaration as text:  <tag name="n" expr="e" descr="di">
RenderDecl(d, e, i, eol) ==
    <<d.tag, KName, Q, d.name, Q, KExpr, Q>> \o e \o <<Q>>
      \o (IF d.descr THEN <<KDescr, Q, DescrTok[i], Q>> ELSE <<>>) \o <<GT, eol>>

RECURSIVE RenderFrom(_, _, _, _)
RenderFrom(ds, es, i, eol) ==
    IF i > Len(ds)
    THEN <<>>
    ELSE RenderDecl(ds[i], es[i], i, eol) \o RenderFrom(ds, es, i + 1, eol)

OrigExprs(ds) == [i \in 1..Len(ds) |-> <<ExprTok[i]>>]

RenderDoc(ds, eol) == RenderFrom(ds, OrigExprs(ds), 1, eol)

\* the values typed into the editor: a plain one and two with a double quote
NewValues == {<<"9">>, <<Q>>, <<"9", Q, "9">>}

EditSeqs ==
    {e \in UNION {[1..n -> [name : Names, value : NewValues]] : n \in 0..MaxEdits} :
        \A i, j \in 1..Len(e) : e[i].name = e[j].name => i = j}

Proj == "proj"
OrigParts ==
    {[stem |-> <<"x">>, ext |-> <<Dot, "mph">>],
     [stem |-> <<"x", "_backup">>, ext |-> <<Dot, "mph">>],
     [stem |-> <<"x">>, ext |-> <<Dot, "zip">>],
     [stem |-> <<"x">>, ext |-> <<>>]}
OrigNames == {r.stem \o r.ext : r \in OrigParts}
PathOf(n) == [parent |-> Proj, name |-> n]

\* files a user may already have next to the container
OldFile == Zip(<<FileMember(<<"old">>, <<"B0">>)>>)

\* what a container holds besides dmodel.xml
Extras ==
    {<<>>,
     <<FileMember(<<"fileversion">>, <<"B1">>)>>,
     <<DirMember(<<"geom">>), FileMember(<<"geom", "g.mphbin">>, <<"B2">>), DirMember(<<"empty">>)>>}

\* the declaration lists of the containers of the file-system specification
FsDeclSeqs ==
    {ds \in DeclSeqs : \A i \in 1..Len(ds) :
        ds[i].tag = LtExpressions /\ ds[i].descr /\ ds[i].name = "a"}

\* the declarations of the containers the Inspect view is opened on: well
\* formed ones, elements of another tag and declarations without descr, with
\* names and values on both sides of every exclusion rule
ParseNames == {"a", "currentiter"}
ParseExprs == {<<"1">>, <<"Triangle", "1">>, <<"X99">>, <<"X99", "1">>, <<"X99", "1", "1">>}

ParseDecls ==
    {d \in [tag : {LtExpressions, LtOther}, name : ParseNames, descr : BOOLEAN,
            expr : ParseExprs] : d.tag = LtExpressions \/ d.descr}

ParseDeclSeqs == UNION {[1..n -> ParseDecls] : n \in 0..MaxDecls}

ExprsOf(ds) == [i \in 1..Len(ds) |-> ds[i].expr]

\* the members of the archives the lister is run on, and how many of them
MaxMembers == 2

MemberPool ==
    {FileMember(<<"fileversion">>, <<>>),
     FileMember(DmodelName, <<"Blob1023">>),
     FileMember(<<"m.json">>, <<"Blob1024">>),
     DirMember(<<"geom">>),
     FileMember(<<"geom", "g.mphbin">>, <<"Blob1280">>)}

MemberSeqs == UNION {[1..n -> MemberPool] : n \in 0..MaxMembers}

\* the member names the classifier is run on
MaxNameToks == 3

NameToks == {"x", Dot, Slash, "xml", "XML", "json", "mphbin", "png", "txt", "zip", "foo"}

MemberNames == UNION {[1..n -> NameToks] : n \in 1..MaxNameToks}

\* the two members load_model_info reads, each present in some form or
\* absent: a version with white space around it or with a byte that is not
\* UTF-8, and a root element with both, one or none of the two attributes,
\* not closed, or with a byte that is not UTF-8
FileVersions ==
    {<<>>,
     <<FileMember(FileVersionName, <<"6", Dot, "1">>)>>,
     <<FileMember(FileVersionName, <<Space, "6", Space, "1", LF, Space>>)>>,
     <<FileMember(FileVersionName, <<BadByte, "6", LF>>)>>}

ModelInfos ==
    {<<>>,
     <<FileMember(ModelInfoName, <<LtModel, KTitle, Q, "T", Q, KDescription, Q, "D", Q, SlashGT>>)>>,
     <<FileMember(ModelInfoName, <<LtModel, KName, Q, "a", Q, KTitle, Q, "T", Q, SlashGT>>)>>,
     <<FileMember(ModelInfoName, <<LtModel, KDescription, Q, "D", Q, SlashGT>>)>>,
     <<FileMember(ModelInfoName, <<LtModel, SlashGT>>)>>,
     <<FileMember(ModelInfoName, <<LtModel, KTitle, Q, "T", Q>>)>>,
     <<FileMember(ModelInfoName, <<LtModel, KTitle, Q, "T", Q, SlashGT, BadByte>>)>>,
     <<DirMember(ModelInfoName)>>}

InfoInputs ==
    {Zip(fv \o ms \o mi) : fv \in FileVersions, mi \in ModelInfos, ms \in MemberSeqs}

\* the folder chosen for an export, and what may be at the extraction root
\* before: nothing, an empty directory, the entries of an earlier export, or
\* a regular file
ExtractDir == "exported"

StaleTree == ExtractAll(<<FileMember(<<"stale.txt">>, <<"B0">>)>>, EmptyTree)

Destinations == {<<>>, <<Dir(EmptyTree)>>, <<Dir(StaleTree)>>, <<NotZip>>}

\* what the Inspect view can be opened on: a path and what the disk holds
\* there
InspectInputs ==
    {[ds |-> ds, files |-> <<Zip(<<FileMember(DmodelName, RenderFrom(ds, ExprsOf(ds), 1, LF))>>)>>] :
        ds \in ParseDeclSeqs}
    \cup {[ds |-> <<>>, files |-> <<Zip(ms)>>] : ms \in MemberSeqs}
    \cup {[ds |-> <<>>, files |-> <<z>>] : z \in InfoInputs}
    \cup {[ds |-> <<>>, files |-> <<NotZip>>],
          [ds |-> <<>>, files |-> <<Partial(<<FileMember(DmodelName, <<LF>>)>>)>>],
          [ds |-> <<>>, files |-> <<>>],
          [ds |-> <<>>, files |-> <<Zip(<<FileMember(DmodelName,
                 <<LtExpressions, KName, Q, "a", Q, KExpr, Q, "1", Q, KDescr, Q, "d1", Q, GT,
                   BadByte>>)>>)>>]}

\* ------------------------------------------------------------------- state
VARIABLES
    fs,          \* the directory: path -> file
    fs0,         \* fs when save_modified_mph was called
    decls,       \* the declarations the original dmodel.xml was written from
    temp,        \* the scratch directory: NoDir, or relative path -> entry
    pc,          \* position in save_modified_mph
    mph_path,    \* argument
    parameters,  \* argument: the edits, in dictionary order
    towrite,     \* files of the scratch directory rglob has not yet yielded
    ret,         \* the value being returned
    raised,      \* the step that raised an exception, "none" if none did
    linesep,     \* os.linesep as a token
    round,       \* number of invocations so far
    view,        \* what the Inspect view last loaded, and how
    param_tree,  \* the rows of the parameter table of the Inspect view
    projects,          \* main window: the project cards
    selected_project,  \* main window: the selected card, None if none
    action_buttons,    \* main window: state of the four action buttons
    mph_available,     \* what check_mph_available() returns
    workers,           \* the worker threads started: number -> kind and position
    after_queue,       \* the callbacks handed to root.after(0, ...), in order
    load_btn,          \* Advanced Mode: state of Load Parameters
    run_btn,           \* Advanced Mode: state of Run
    export_btn,        \* Advanced Mode: state of Export
    mph_client,        \* Advanced Mode: self.mph_client
    current_model,     \* Advanced Mode: self.current_model
    succeeded          \* the steps of the workers that have run through

vars == <<fs, fs0, decls, temp, pc, mph_path, parameters, towrite, ret, raised, linesep, round, view, param_tree,
          projects, selected_project, action_buttons, mph_available, workers, after_queue,
          load_btn, run_btn, export_btn, mph_client, current_model, succeeded>>

uiVars == <<projects, selected_project, action_buttons, mph_available, workers, after_queue,
            load_btn, run_btn, export_btn, mph_client, current_model, succeeded>>

fileVars == <<fs, fs0, decls, temp, pc, mph_path, parameters, towrite, ret, raised, linesep,
              round, view, param_tree>>

NoWorkers == <<>>

\* the windows as they are built: nothing selected, the action buttons and
\* the buttons of Advanced Mode after Connect disabled, no thread started
InitUi ==
    /\ projects = {}
    /\ selected_project = None
    /\ action_buttons = "disabled"
    /\ mph_available = FALSE
    /\ workers = NoWorkers
    /\ after_queue = <<>>
    /\ load_btn = "disabled"
    /\ run_btn = "disabled"
    /\ export_btn = "disabled"
    /\ mph_client = None
    /\ current_model = None
    /\ succeeded = {}

InitCommon ==
    /\ fs0 = fs
    /\ temp = NoDir
    /\ pc = "idle"
    /\ parameters = <<>>
    /\ towrite = {}
    /\ ret = NoResult
    /\ raised = "none"
    /\ round = 0
    /\ param_tree = <<>>
    /\ InitUi

\* any container, any prior content of the two output paths, both platforms
Init ==
    /\ mph_path \in {PathOf(n) : n \in OrigNames}
    /\ linesep \in {LF, CRLF}
    /\ \E ex \in Extras, pre \in SUBSET {BackupPath(mph_path), ModifiedPath(mph_path)} :
         \E orig \in
              {[ds |-> ds, file |-> Zip(<<FileMember(DmodelName, RenderDoc(ds, eol))>> \o ex)] :
                  ds \in FsDeclSeqs, eol \in {LF, CRLF}}
              \cup {[ds |-> <<>>, file |-> Zip(ex)],
                    [ds |-> <<>>, file |-> Zip(ex \o <<FileMember(<<"sub", "dmodel.xml">>, <<LF>>)>>)],
                    [ds |-> <<>>, file |-> Zip(<<FileMember(DmodelName, <<BadByte>>)>> \o ex)],
                    [ds |-> <<>>, file |-> NotZip]} :
            /\ decls = orig.ds
            /\ fs = [p \in {mph_path} \cup pre |-> IF p = mph_path THEN orig.file ELSE OldFile]
    /\ view = NoView
    /\ InitCommon

\* the text pipeline: one container per declaration list, nothing else on disk
InitPatch ==
    /\ mph_path = PathOf(<<"x", Dot, "mph">>)
    /\ linesep = LF
    /\ decls \in DeclSeqs
    /\ fs = [p \in {mph_path} |-> Zip(<<FileMember(DmodelName, RenderDoc(decls, LF))>>)]
    /\ view = NoView
    /\ InitCommon

\* ----------------------------------------------------------------- actions
\* no  except  clause: the exception leaves the function and the caller gets
\* no value
Raise_escape(step, e) ==
    /\ raised' = step
    /\ ret' = ret

\* lines 72-73: except Exception as e: return (False, str(e), None, None)
Raise(step, e) ==
    /\ raised' = step
    /\ ret' = Failure(e)

\* line 34: tempfile.TemporaryDirectory()
Call(edits) ==
    /\ pc = "idle"
    /\ parameters' = edits
    /\ fs0' = fs
    /\ temp' = EmptyTree
    /\ pc' = "extract"
    /\ round' = round + 1
    /\ UNCHANGED <<fs, decls, mph_path, towrite, ret, raised, linesep, view, param_tree, uiVars>>

\* line 34 raising: no scratch directory exists
CallFail(edits) ==
    /\ pc = "idle"
    /\ parameters' = edits
    /\ fs0' = fs
    /\ Raise("mkdtemp", "OSError")
    /\ pc' = "done"
    /\ round' = round + 1
    /\ UNCHANGED <<fs, decls, temp, mph_path, towrite, linesep, view, param_tree, uiVars>>

\* lines 38-39
ExtractOK ==
    /\ pc = "extract"
    /\ mph_path \in DOMAIN fs
    /\ fs[mph_path].kind = "zip"
    /\ temp' = ExtractAll(fs[mph_path].members, temp)
    /\ pc' = "patch"
    /\ UNCHANGED <<fs, fs0, decls, mph_path, parameters, towrite, ret, raised, linesep, round, view, param_tree, uiVars>>

\* lines 38-39 raising: the file is not an archive, or reading it fails after
\* some members have been extracted
ExtractFail ==
    /\ pc = "extract"
    /\ IF mph_path \in DOMAIN fs /\ fs[mph_path].kind = "zip"
       THEN /\ \E k \in 0..Len(fs[mph_path].members) :
                 temp' = ExtractAll(SubSeq(fs[mph_path].members, 1, k), temp)
            /\ Raise("extract", "OSError")
       ELSE /\ temp' = temp
            /\ Raise("extract", "BadZipFile")
    /\ pc' = "cleanup"
    /\ UNCHANGED <<fs, fs0, decls, mph_path, parameters, towrite, linesep, round, view, param_tree, uiVars>>

\* lines 43-44
PatchMissing ==
    /\ pc = "patch"
    /\ FindDmodel(temp) = {}
    /\ ret' = MissingResult
    /\ pc' = "cleanup"
    /\ UNCHANGED <<fs, fs0, decls, temp, mph_path, parameters, towrite, raised, linesep, round, view, param_tree, uiVars>>

\* lines 46-54
PatchOK ==
    /\ pc = "patch"
    /\ \E p \in FindDmodel(temp) :
         /\ ~temp[p].dir
         /\ Decodable(temp[p].data)
         /\ temp' = [temp EXCEPT ![p].data =
                        WriteText(PatchAll(ReadText(temp[p].data), parameters), linesep)]
    /\ pc' = "backup"
    /\ UNCHANGED <<fs, fs0, decls, mph_path, parameters, towrite, ret, raised, linesep, round, view, param_tree, uiVars>>

\* lines 46-54 raising: dmodel.xml is not UTF-8, or reading or writing fails
PatchFail ==
    /\ pc = "patch"
    /\ \E p \in FindDmodel(temp) :
         IF ~temp[p].dir /\ Decodable(temp[p].data)
         THEN Raise("patch", "OSError")
         ELSE Raise("patch", "UnicodeDecodeError")
    /\ pc' = "cleanup"
    /\ UNCHANGED <<fs, fs0, decls, temp, mph_path, parameters, towrite, linesep, round, view, param_tree, uiVars>>

\* lines 57-58
BackupOK ==
    /\ pc = "backup"
    /\ fs' = Copy2(fs, mph_path, BackupPath(mph_path))
    /\ pc' = "repack_open"
    /\ UNCHANGED <<fs0, decls, temp, mph_path, parameters, towrite, ret, raised, linesep, round, view, param_tree, uiVars>>

\* line 58 raising: the backup was not opened, was broken off, or was copied
\* in full before the failure
BackupFail ==
    /\ pc = "backup"
    /\ \/ fs' = fs
       \/ fs' = Put(fs, BackupPath(mph_path), NotZip)
       \/ fs' = Copy2(fs, mph_path, BackupPath(mph_path))
    /\ Raise("backup", "OSError")
    /\ pc' = OnBackupError
    /\ UNCHANGED <<fs0, decls, temp, mph_path, parameters, towrite, linesep, round, view, param_tree, uiVars>>

\* lines 61-64: ZipFile(new_mph, 'w') creates or truncates the file
RepackOpen ==
    /\ pc = "repack_open"
    /\ fs' = ZipOpenW(fs, ModifiedPath(mph_path))
    /\ towrite' = FilesOf(temp)
    /\ pc' = "repack_write"
    /\ UNCHANGED <<fs0, decls, temp, mph_path, parameters, ret, raised, linesep, round, view, param_tree, uiVars>>

\* line 64 raising: the file could not be opened for writing
RepackOpenFail ==
    /\ pc = "repack_open"
    /\ Raise("repack", "OSError")
    /\ pc' = "cleanup"
    /\ UNCHANGED <<fs, fs0, decls, temp, mph_path, parameters, towrite, linesep, round, view, param_tree, uiVars>>

\* lines 65-68: one file of the scratch directory is written; rglob yields
\* the entries in the order of the file system
RepackWrite ==
    /\ pc = "repack_write"
    /\ \E f \in towrite :
         /\ fs' = [fs EXCEPT ![ModifiedPath(mph_path)].members =
                      Append(@, FileMember(f, temp[f].data))]
         /\ towrite' = towrite \ {f}
    /\ UNCHANGED <<fs0, decls, temp, pc, mph_path, parameters, ret, raised, linesep, round, view, param_tree, uiVars>>

\* lines 64-68 raising: leaving the  with  block closes the archive, which
\* either completes it with the members written so far or fails as well
RepackWriteFail ==
    /\ pc = "repack_write"
    /\ \/ fs' = fs
       \/ fs' = [fs EXCEPT ![ModifiedPath(mph_path)].kind = "zip"]
    /\ Raise("repack", "OSError")
    /\ pc' = "cleanup"
    /\ UNCHANGED <<fs0, decls, temp, mph_path, parameters, towrite, linesep, round, view, param_tree, uiVars>>

\* the end of the  with  block of line 64, and line 70
RepackClose ==
    /\ pc = "repack_write"
    /\ towrite = {}
    /\ fs' = [fs EXCEPT ![ModifiedPath(mph_path)].kind = "zip"]
    /\ ret' = Success(ModifiedPath(mph_path), BackupPath(mph_path))
    /\ pc' = "cleanup"
    /\ UNCHANGED <<fs0, decls, temp, mph_path, parameters, towrite, raised, linesep, round, view, param_tree, uiVars>>

\* leaving the  with  block of line 34 removes the scratch directory; the
\* caller then has the returned value
Cleanup ==
    /\ pc = "cleanup"
    /\ temp' = RemoveTree(temp)
    /\ pc' = "done"
    /\ UNCHANGED <<fs, fs0, decls, mph_path, parameters, towrite, ret, raised, linesep, round, view, param_tree, uiVars>>

\* the process is killed while save_modified_mph runs: nothing returns and no
\* handler runs; a kill during shutil.copy2 may leave a broken-off backup
InFlight == {"extract", "patch", "backup", "repack_open", "repack_write", "cleanup"}

Crashed(at) ==
    CASE at = "extract" -> "crashed_extract"
      [] at = "patch" -> "crashed_patch"
      [] at = "backup" -> "crashed_backup"
      [] at = "repack_open" -> "crashed_repack_open"
      [] at = "repack_write" -> "crashed_repack_write"
      [] at = "cleanup" -> "crashed_cleanup"

Crash ==
    /\ pc \in InFlight
    /\ pc' = Crashed(pc)
    /\ \/ fs' = fs
       \/ pc = "backup" /\ fs' = Put(fs, BackupPath(mph_path), NotZip)
    /\ UNCHANGED <<fs0, decls, temp, mph_path, parameters, towrite, ret, raised, linesep, round, view, param_tree, uiVars>>

\* the same edits are applied to the container the first call has produced
CallAgain ==
    /\ pc = "done"
    /\ ret.ok
    /\ round = 1
    /\ mph_path' = ret.new_mph
    /\ fs0' = fs
    /\ temp' = EmptyTree
    /\ pc' = "extract"
    /\ round' = 2
    /\ ret' = NoResult
    /\ UNCHANGED <<fs, decls, parameters, towrite, raised, linesep, view, param_tree, uiVars>>

Next ==
    \/ \E e \in EditSeqs : Call(e)
    \/ \E e \in EditSeqs : CallFail(e)
    \/ ExtractOK
    \/ ExtractFail
    \/ PatchMissing
    \/ PatchOK
    \/ PatchFail
    \/ BackupOK
    \/ BackupFail
    \/ RepackOpen
    \/ RepackOpenFail
    \/ RepackWrite
    \/ RepackWriteFail
    \/ RepackClose
    \/ Cleanup
    \/ Crash

Spec == Init /\ [][Next]_vars

NextPatch ==
    \/ \E e \in EditSeqs : Call(e)
    \/ ExtractOK
    \/ PatchOK
    \/ BackupOK
    \/ RepackOpen
    \/ RepackWrite
    \/ RepackClose
    \/ Cleanup
    \/ CallAgain

SpecPatch == InitPatch /\ [][NextPatch]_vars

\* ------------------------------------------- editing in the Inspect view
\* the containers the parameter table is filled from: well-formed
\* declarations, names possibly repeated
EditDeclSeqs ==
    {ds \in DeclSeqs : \A i \in 1..Len(ds) : ds[i].tag = LtExpressions /\ ds[i].descr}

InitEdit ==
    /\ mph_path = PathOf(<<"x", Dot, "mph">>)
    /\ linesep = LF
    /\ decls \in EditDeclSeqs
    /\ fs = [p \in {mph_path} |-> Zip(<<FileMember(DmodelName, RenderDoc(decls, LF))>>)]
    /\ view = NoView
    /\ InitCommon

\* inspect_mode.py lines 302-304
OpenInspector ==
    /\ pc = "idle"
    /\ view.op = "none"
    /\ view' = [op |-> "params", arg |-> <<>>, error |-> ParamsError(fs, mph_path),
                out |-> load_parameters_from_mph(fs, mph_path)]
    /\ param_tree' = RowsOf(load_parameters_from_mph(fs, mph_path))
    /\ UNCHANGED <<fs, fs0, decls, temp, pc, mph_path, parameters, towrite, ret, raised, linesep, round, uiVars>>

\* what is typed into the entry of the edit dialog of row i: the value
\* shown, a new value, either with white space around it, or white space only
Typed(i) ==
    {param_tree[i].values[2], <<"9">>, <<Space>> \o param_tree[i].values[2] \o <<Space>>,
     <<Space>>}

\* inspect_mode_editor.py lines 150-156: Apply Change on the dialog of row i
EditRow(i, typed) ==
    /\ pc = "idle"
    /\ view.op = "params"
    /\ i \in 1..Len(param_tree)
    /\ LET new_value == Strip(typed)
       IN  /\ new_value # <<>>
           /\ param_tree' = [param_tree EXCEPT ![i] =
                                Row(@.values[1], new_value, @.values[3], {ModifiedTag})]
    /\ UNCHANGED <<fs, fs0, decls, temp, pc, mph_path, parameters, towrite, ret, raised, linesep, round, view, uiVars>>

\* inspect_mode.py lines 340-342: Save Changes with no row tagged modified
SaveNothing ==
    /\ pc = "idle"
    /\ view.op = "params"
    /\ ModifiedCount(param_tree) = 0
    /\ view' = [view EXCEPT !.op = "saved", !.out = <<"No Changes">>]
    /\ UNCHANGED <<fs, fs0, decls, temp, pc, mph_path, parameters, towrite, ret, raised, linesep, round, param_tree, uiVars>>

\* inspect_mode.py lines 327-348: Save Changes hands every row to
\* save_modified_mph
SaveChanges ==
    /\ view.op = "params"
    /\ ModifiedCount(param_tree) > 0
    /\ Call(DictOf(param_tree, <<>>))

NextEdit ==
    \/ OpenInspector
    \/ \E i \in 1..Len(param_tree) : \E typed \in Typed(i) : EditRow(i, typed)
    \/ SaveNothing
    \/ SaveChanges
    \/ ExtractOK
    \/ PatchOK
    \/ BackupOK
    \/ RepackOpen
    \/ RepackWrite
    \/ RepackClose
    \/ Cleanup

SpecEdit == InitEdit /\ [][NextEdit]_vars

\* ------------------------------------------ two saves of the same original
\* save_modified_mph called once more for the same path, with other edits
CallSame(edits) ==
    /\ pc = "done"
    /\ ret.ok
    /\ round = 1
    /\ parameters' = edits
    /\ fs0' = fs
    /\ temp' = EmptyTree
    /\ pc' = "extract"
    /\ round' = 2
    /\ ret' = NoResult
    /\ UNCHANGED <<fs, decls, mph_path, towrite, raised, linesep, view, param_tree, uiVars>>

NextTwice ==
    \/ \E e \in EditSeqs : Call(e)
    \/ ExtractOK
    \/ PatchOK
    \/ BackupOK
    \/ RepackOpen
    \/ RepackWrite
    \/ RepackClose
    \/ Cleanup
    \/ \E e \in EditSeqs : CallSame(e)

SpecTwice == InitEdit /\ [][NextTwice]_vars

\* ---------------------------------------------------------- the Inspect view
\* the view is opened on a path, or the classifier is handed a member name
InitInspect ==
    /\ mph_path = PathOf(<<"x", Dot, "mph">>)
    /\ linesep = LF
    /\ \/ \E c \in InspectInputs :
            /\ decls = c.ds
            /\ fs = [p \in {mph_path : k \in 1..Len(c.files)} |-> c.files[1]]
            /\ view = NoView
       \/ \E ms \in MemberSeqs, d \in Destinations :
            /\ decls = <<>>
            /\ fs = [p \in {mph_path} \cup {ExtractPath(mph_path, ExtractDir) : k \in 1..Len(d)} |->
                        IF p = mph_path THEN Zip(ms) ELSE d[1]]
            /\ view = NoView
       \/ \E n \in MemberNames :
            /\ decls = <<>>
            /\ fs = [p \in {} |-> NotZip]
            /\ view = [NoView EXCEPT !.arg = n]
    /\ InitCommon

\* inspect_mode.py line 291
LoadFileList ==
    /\ view.op = "none"
    /\ view.arg = <<>>
    /\ view' = [op |-> "list", arg |-> <<>>, error |-> ListError(fs, mph_path),
                out |-> load_file_list(fs, mph_path)]
    /\ UNCHANGED <<fs, fs0, decls, temp, pc, mph_path, parameters, towrite, ret, raised, linesep, round, param_tree, uiVars>>

\* inspect_mode.py line 302
LoadParameters ==
    /\ view.op = "none"
    /\ view.arg = <<>>
    /\ view' = [op |-> "params", arg |-> <<>>, error |-> ParamsError(fs, mph_path),
                out |-> load_parameters_from_mph(fs, mph_path)]
    /\ UNCHANGED <<fs, fs0, decls, temp, pc, mph_path, parameters, towrite, ret, raised, linesep, round, param_tree, uiVars>>

\* inspect_mode.py line 307
LoadModelInfo ==
    /\ view.op = "none"
    /\ view.arg = <<>>
    /\ view' = [op |-> "info", arg |-> <<>>, error |-> InfoError(fs, mph_path),
                out |-> load_model_info(fs, mph_path)]
    /\ UNCHANGED <<fs, fs0, decls, temp, pc, mph_path, parameters, towrite, ret, raised, linesep, round, param_tree, uiVars>>

\* inspect_mode.py line 405, extract_mph running through: the root is made
\* unless it is there, every member is extracted into it, the entries are
\* counted
ExportOK ==
    /\ view.op = "none"
    /\ view.arg = <<>>
    /\ mph_path \in DOMAIN fs
    /\ fs[mph_path].kind = "zip"
    /\ LET dest == ExtractPath(mph_path, ExtractDir)
       IN  /\ dest \in DOMAIN fs => fs[dest].kind = "dir"
           /\ LET tree == ExtractAll(fs[mph_path].members, AfterMkdir(fs, dest))
               IN  /\ fs' = Put(fs, dest, Dir(tree))
                   /\ view' = [op |-> "export", arg |-> <<>>, error |-> "none",
                               out |-> <<TRUE, dest, CountEntries(tree)>>]
    /\ UNCHANGED <<fs0, decls, temp, pc, mph_path, parameters, towrite, ret, raised, linesep, round, param_tree, uiVars>>

\* extract_mph raising: mkdir fails (a regular file is in the way, or the
\* disk refuses), the file is not an archive, or the extraction breaks off
\* after some members
ExportFail ==
    /\ view.op = "none"
    /\ view.arg = <<>>
    /\ LET dest == ExtractPath(mph_path, ExtractDir)
           blocked == dest \in DOMAIN fs /\ fs[dest].kind # "dir"
           opens == mph_path \in DOMAIN fs /\ fs[mph_path].kind = "zip"
       IN  \/ /\ fs' = fs
              /\ view' = [op |-> "export", arg |-> <<>>,
                          error |-> IF blocked THEN "FileExistsError" ELSE "OSError",
                          out |-> <<FALSE, IF blocked THEN "FileExistsError" ELSE "OSError", 0>>]
           \/ /\ ~blocked
              /\ ~opens
              /\ fs' = Put(fs, dest, Dir(AfterMkdir(fs, dest)))
              /\ view' = [op |-> "export", arg |-> <<>>, error |-> "BadZipFile",
                          out |-> <<FALSE, "BadZipFile", 0>>]
           \/ /\ ~blocked
              /\ opens
              /\ \E k \in 0..Len(fs[mph_path].members) :
                    fs' = Put(fs, dest, Dir(ExtractAll(SubSeq(fs[mph_path].members, 1, k),
                                                       AfterMkdir(fs, dest))))
              /\ view' = [op |-> "export", arg |-> <<>>, error |-> "OSError",
                          out |-> <<FALSE, "OSError", 0>>]
    /\ UNCHANGED <<fs0, decls, temp, pc, mph_path, parameters, towrite, ret, raised, linesep, round, param_tree, uiVars>>

\* mph_parser.py line 62, for a name of its own
ClassifyFile ==
    /\ view.op = "none"
    /\ view.arg # <<>>
    /\ view' = [view EXCEPT !.op = "classify", !.out = _classify_file(view.arg)]
    /\ UNCHANGED <<fs, fs0, decls, temp, pc, mph_path, parameters, towrite, ret, raised, linesep, round, param_tree, uiVars>>

NextInspect ==
    \/ LoadFileList
    \/ LoadParameters
    \/ LoadModelInfo
    \/ ExportOK
    \/ ExportFail
    \/ ClassifyFile

SpecInspect == InitInspect /\ [][NextInspect]_vars


\* ================================================================== claims
Done == pc = "done"
OkDone == pc = "done" /\ ret.ok

\* the bytes of the regular-file member dmodel.xml of a file
DmodelData(file) == file.members[Max(DmodelMembers(file))].data

FileNames(file) == {file.members[k].name : k \in {j \in 1..Len(file.members) : ~file.members[j].dir}}

\* the declarations an edit for name n matches
Named(ds, n) == {i \in 1..Len(ds) : ds[i].name = n}

Unmatched == \A k \in 1..Len(parameters) : Named(decls, parameters[k].name) = {}

\* C1: in every state of every invocation, whatever its outcome, the file at
\* the original path exists with the bytes it had when the call started, and
\* neither output path equals the original path.
C1_OriginalUntouched ==
    /\ BackupPath(mph_path) # mph_path
    /\ ModifiedPath(mph_path) # mph_path
    /\ mph_path \in DOMAIN fs
    /\ fs[mph_path] = fs0[mph_path]

C1_Witness == OkDone /\ fs # fs0 /\ ret.new_mph \in DOMAIN fs

\* C2: after a successful call the modified container is an archive whose
\* members are exactly the regular files of the original, each once, none a
\* directory entry, and every member but dmodel.xml has the original bytes.
C2_MembersPreserved ==
    OkDone =>
        LET o == fs0[mph_path].members
            n == fs[ret.new_mph].members
        IN  /\ fs[ret.new_mph].kind = "zip"
            /\ {n[k].name : k \in 1..Len(n)} = FileNames(fs0[mph_path])
            /\ \A k \in 1..Len(n) : ~n[k].dir
            /\ \A j, k \in 1..Len(n) : n[j].name = n[k].name => j = k
            /\ \A k \in 1..Len(n), j \in 1..Len(o) :
                  (n[k].name = o[j].name /\ ~o[j].dir /\ n[k].name # DmodelName)
                     => n[k].data = o[j].data

C2_Witness ==
    /\ OkDone
    /\ \E j, k \in 1..Len(fs0[mph_path].members) :
          /\ fs0[mph_path].members[j].dir
          /\ ~fs0[mph_path].members[k].dir
          /\ fs0[mph_path].members[k].name # DmodelName

\* C3 (as claimed): after a successful call with the single edit n -> v on a
\* container whose parameter table holds n, the parameter table of the
\* modified container has the same names and descriptions in the same order,
\* value v for n and the original value for every other name.
C3_RoundTrip ==
    (OkDone /\ round = 1 /\ Len(parameters) = 1) =>
        LET n == parameters[1].name
            v == parameters[1].value
            before == load_parameters_from_mph(fs0, mph_path)
            after == load_parameters_from_mph(fs, ret.new_mph)
        IN  (\E k \in 1..Len(before) : before[k].name = <<n>>) =>
               /\ Len(after) = Len(before)
               /\ \A k \in 1..Len(before) :
                     /\ after[k].name = before[k].name
                     /\ after[k].descr = before[k].descr
                     /\ after[k].value = IF before[k].name = <<n>> THEN v ELSE before[k].value

\* the expr values of the declarations after the edits: a declaration takes
\* the value of the edit that carries its name
RECURSIVE EditedExprs(_, _, _)
EditedExprs(ds, es, edits) ==
    IF edits = <<>>
    THEN es
    ELSE EditedExprs(ds,
                     [i \in 1..Len(ds) |-> IF ds[i].name = Head(edits).name
                                           THEN Head(edits).value ELSE es[i]],
                     Tail(edits))

\* only the first declaration that carries the name of the edit takes its value
FirstOnlyExprs(ds, edit) ==
    [i \in 1..Len(ds) |-> IF Named(ds, edit.name) # {} /\ i = Min(Named(ds, edit.name))
                          THEN edit.value ELSE <<ExprTok[i]>>]


\* C4 (as claimed): with the single edit n -> v, only the first declaration
\* that carries name n has its expr rewritten; later ones keep their expr.
C4_FirstOnly ==
    (OkDone /\ round = 1 /\ Len(parameters) = 1) =>
        DmodelData(fs[ret.new_mph])
           = RenderFrom(decls, FirstOnlyExprs(decls, parameters[1]), 1, linesep)

\* C4 (amended): every declaration that carries the name of an edit has its
\* expr rewritten to the value of that edit, the first textual occurrence and
\* every later one; the rest of dmodel.xml is written back as it was read.
C4_EveryOccurrence ==
    (OkDone /\ round = 1) =>
        DmodelData(fs[ret.new_mph])
           = RenderFrom(decls, EditedExprs(decls, OrigExprs(decls), parameters), 1, linesep)

C4_Witness ==
    /\ OkDone
    /\ round = 1
    /\ Len(parameters) = 1
    /\ Cardinality(Named(decls, parameters[1].name)) >= 2
    /\ \E i \in Named(decls, parameters[1].name) :
          /\ i # Min(Named(decls, parameters[1].name))
          /\ decls[i].tag = LtExpressions /\ decls[i].descr

\* C5 (as claimed): when the edit map is not empty, none of its names is the
\* name of a declaration of dmodel.xml and no step fails, the call succeeds, dmodel.xml of the modified container has
\* the bytes of the original dmodel.xml, and so has every other member.
C5_UnmatchedIsNoOp ==
    (Done /\ raised = "none" /\ parameters # <<>> /\ Unmatched
          /\ fs0[mph_path].kind = "zip" /\ DmodelMembers(fs0[mph_path]) # {}) =>
        /\ ret.ok
        /\ FileNames(fs[ret.new_mph]) = FileNames(fs0[mph_path])
        /\ \A k \in 1..Len(fs[ret.new_mph].members), j \in 1..Len(fs0[mph_path].members) :
              (fs[ret.new_mph].members[k].name = fs0[mph_path].members[j].name
                 /\ ~fs0[mph_path].members[j].dir)
                 => fs[ret.new_mph].members[k].data = fs0[mph_path].members[j].data

C7_BackupIdentical ==
    OkDone =>
        /\ ret.backup_path \in DOMAIN fs
        /\ fs[ret.backup_path] = fs0[mph_path]

C7_Witness ==
    /\ OkDone
    /\ ret.backup_path \in DOMAIN fs0
    /\ fs0[ret.backup_path] # fs0[mph_path]

\* C8 (as claimed): for a container named <stem><ext> the backup is written
\* to <stem>_backup<ext> and the modified container to <stem>_modified<ext>,
\* in the directory of the original, and these two paths are returned.
C8_KeepsExtension ==
    OkDone =>
        \A r \in OrigParts :
            mph_path.name = r.stem \o r.ext =>
               /\ ret.backup_path = [parent |-> mph_path.parent,
                                     name |-> r.stem \o <<"_backup">> \o r.ext]
               /\ ret.new_mph = [parent |-> mph_path.parent,
                                 name |-> r.stem \o <<"_modified">> \o r.ext]

\* C8 (amended): for a container named <stem><ext> the backup is written to
\* <stem>_backup.mph and the modified container to <stem>_modified.mph,
\* whatever <ext> is, in the directory of the original, and these two paths
\* are returned.
C8_MphExtension ==
    OkDone =>
        \A r \in OrigParts :
            mph_path.name = r.stem \o r.ext =>
               /\ ret.backup_path = [parent |-> mph_path.parent,
                                     name |-> r.stem \o <<"_backup", Dot, "mph">>]
               /\ ret.new_mph = [parent |-> mph_path.parent,
                                 name |-> r.stem \o <<"_modified", Dot, "mph">>]
               /\ ret.backup_path \in DOMAIN fs
               /\ ret.new_mph \in DOMAIN fs
               /\ fs[ret.new_mph].kind = "zip"
               /\ \A p \in DOMAIN fs \ DOMAIN fs0 : p \in {ret.backup_path, ret.new_mph}

C8_Witness ==
    /\ OkDone
    /\ mph_path.name = <<"x", Dot, "zip">>
    /\ ret.backup_path \notin DOMAIN fs0
    /\ ret.new_mph \notin DOMAIN fs0

\* C9: when the container is an archive without a regular-file member named
\* dmodel.xml, the call returns a failure without output paths, the failure
\* names the missing member unless an earlier step raised, and no file has
\* been created or changed.
C9_MissingDmodel ==
    (Done /\ fs0[mph_path].kind = "zip" /\ DmodelMembers(fs0[mph_path]) = {}) =>
        /\ ~ret.ok
        /\ ret.new_mph = None
        /\ ret.backup_path = None
        /\ raised = "none" => ret.msg = MissingMsg
        /\ fs = fs0

C9_Witness ==
    /\ Done
    /\ ret = MissingResult
    /\ \E k \in 1..Len(fs0[mph_path].members) :
          fs0[mph_path].members[k].name = <<"sub", "dmodel.xml">>

\* C10: once copying the original to the backup path has failed, the call
\* returns a failure and the modified path holds what it held before the
\* call: nothing, or the file that was there.
C10_BackupFailureAborts ==
    raised = "backup" =>
        /\ ~ret.ok
        /\ ret.new_mph = None
        /\ ModifiedPath(mph_path) \in DOMAIN fs <=> ModifiedPath(mph_path) \in DOMAIN fs0
        /\ ModifiedPath(mph_path) \in DOMAIN fs
              => fs[ModifiedPath(mph_path)] = fs0[ModifiedPath(mph_path)]

C10_Witness ==
    /\ Done
    /\ raised = "backup"
    /\ ModifiedPath(mph_path) \in DOMAIN fs0
    /\ fs # fs0

\* C11: whenever save_modified_mph has returned, on whichever path (success,
\* missing dmodel.xml, an exception in extraction, patching, backup or
\* repackaging), the scratch directory of the call does not exist.  The
\* removal itself is taken to succeed.
C11_ScratchRemoved == Done => temp = NoDir

C11_Witness ==
    /\ Done
    /\ raised = "repack"
    /\ temp = NoDir
    /\ fs # fs0

\* C12: started with no file at the backup path and none at the modified
\* path, a call that is killed, or hit by an I/O failure, after the backup
\* was written and before the repackaging has finished leaves the original
\* unchanged, the backup in place and no file at the modified path.
Interrupted ==
    \/ pc \in {Crashed("repack_open"), Crashed("repack_write")}
    \/ raised = "repack"

C12_NoPartialModified ==
    (/\ Interrupted
     /\ BackupPath(mph_path) \notin DOMAIN fs0
     /\ ModifiedPath(mph_path) \notin DOMAIN fs0) =>
        /\ fs[mph_path] = fs0[mph_path]
        /\ BackupPath(mph_path) \in DOMAIN fs
        /\ ModifiedPath(mph_path) \notin DOMAIN fs

\* C13: no exception leaves save_modified_mph: when a step has raised, the
\* caller gets (False, message, None, None) with the text of the exception;
\* and when the caller gets (True, ...), no step has raised, the backup file
\* exists and the modified path holds a closed archive with one member for
\* every regular file of the original.
Exceptions == {"OSError", "BadZipFile", "UnicodeDecodeError"}

C13_FailuresReturned ==
    Done =>
        /\ raised # "none" => ret \in {Failure(e) : e \in Exceptions}
        /\ ret.ok =>
              /\ raised = "none"
              /\ ret.backup_path \in DOMAIN fs
              /\ ret.new_mph \in DOMAIN fs
              /\ fs[ret.new_mph].kind = "zip"
              /\ Len(fs[ret.new_mph].members) = Cardinality(FileNames(fs0[mph_path]))

C13_Witness ==
    /\ Done
    /\ raised = "repack"
    /\ ret = Failure("OSError")
    /\ ModifiedPath(mph_path) \in DOMAIN fs
    /\ fs[ModifiedPath(mph_path)].kind = "partial"
    /\ fs[ModifiedPath(mph_path)].members # <<>>

\* C14: a loader that failed hands its caller something that tells the
\* failure from a success with nothing to return: whenever list or
\* extract-parameters caught an exception, what it returns is not the empty
\* sequence a successful run over an empty archive or a dmodel.xml without
\* declarations returns.
C14_FailureReported ==
    (view.op \in {"list", "params"} /\ view.error # "none") => view.out # <<>>

\* the declarations parse_parameters is to return: the well-formed ones no
\* exclusion rule matches, as (name, expr, descr), in the order of the text
WellFormed(d) == d.tag = LtExpressions /\ d.descr

Excluded(d) ==
    \/ d.name = "currentiter"
    \/ Head(d.expr) = "Triangle"
    \/ StrLen(d.expr) >= 100

RECURSIVE Expected(_, _)
Expected(ds, i) ==
    IF i > Len(ds)
    THEN <<>>
    ELSE (IF WellFormed(ds[i]) /\ ~Excluded(ds[i])
          THEN <<[name |-> <<ds[i].name>>, value |-> ds[i].expr, descr |-> <<DescrTok[i]>>]>>
          ELSE <<>>) \o Expected(ds, i + 1)

ParamsLoaded == view.op = "params" /\ view.error = "none"

\* C15: the parameters read from a dmodel.xml are exactly its well-formed
\* declarations that match no exclusion rule (name currentiter, expr starting
\* with Triangle, expr of 100 characters or more), each once, in text order.
C15_ExactlyTheKept == ParamsLoaded => view.out = Expected(decls, 1)

C15_Witness ==
    /\ ParamsLoaded
    /\ Len(decls) = 2
    /\ decls[1].name = "currentiter" /\ WellFormed(decls[1])
    /\ decls[2].name = "a" /\ decls[2].expr = <<"X99">>
    /\ Len(view.out) = 1

\* the entries of the result that come from declaration i
From(i) == {k \in 1..Len(view.out) : view.out[k].descr = <<DescrTok[i]>>}

Plain(d) == WellFormed(d) /\ d.name # "currentiter" /\ Head(d.expr) # "Triangle"

\* C16 as stated: a well-formed declaration whose expr has exactly 100
\* characters, and which no other rule excludes, is returned.
C16_Exactly100Returned ==
    ParamsLoaded =>
        \A i \in 1..Len(decls) :
            (Plain(decls[i]) /\ StrLen(decls[i].expr) = 100) => From(i) # {}

\* C16, amended: the length rule drops a declaration when its expr has 100
\* characters or more: one of exactly 100 characters is dropped, one of 99 is
\* returned.
C16_Under100Returned ==
    ParamsLoaded =>
        \A i \in 1..Len(decls) :
            Plain(decls[i]) => (From(i) # {} <=> StrLen(decls[i].expr) <= 99)

C16_Witness ==
    /\ ParamsLoaded
    /\ Len(decls) = 2
    /\ Plain(decls[1]) /\ StrLen(decls[1].expr) = 100 /\ From(1) = {}
    /\ Plain(decls[2]) /\ StrLen(decls[2].expr) = 99 /\ From(2) # {}

\* C17: load_parameters_from_mph returns the empty sequence for a path
\* that holds no archive, an archive without dmodel.xml, a dmodel.xml that is
\* not UTF-8, and a dmodel.xml no declaration of which is kept.
C17_EmptyOnFailure ==
    view.op = "params" =>
        /\ mph_path \notin DOMAIN fs => view.out = <<>>
        /\ (mph_path \in DOMAIN fs /\ fs[mph_path].kind # "zip") => view.out = <<>>
        /\ (mph_path \in DOMAIN fs /\ \A k \in 1..Len(fs[mph_path].members) :
                fs[mph_path].members[k].name # DmodelName) => view.out = <<>>
        /\ (mph_path \in DOMAIN fs /\ \E k \in 1..Len(fs[mph_path].members) :
                \E j \in 1..Len(fs[mph_path].members[k].data) :
                    fs[mph_path].members[k].data[j] = BadByte) => view.out = <<>>
        /\ Expected(decls, 1) = <<>> => view.out = <<>>

C17_Witness ==
    /\ view.op = "params"
    /\ view.error = "UnicodeDecodeError"
    /\ view.out = <<>>

\* C18: the lister tells a file that does not open as an archive from an
\* archive without members: it returns the empty sequence exactly when the
\* path holds a valid archive with zero members.
C18_NotAnArchive ==
    (view.op = "list" /\ mph_path \in DOMAIN fs) =>
        (view.out = <<>> <=> fs[mph_path] = Zip(<<>>))

\* C19: for an archive that opens, the lister returns one entry per member
\* in the order of the archive, named as the member, and the size text of an
\* entry is the byte count for a member below 1024 bytes and a figure in KB
\* from 1024 bytes on.
C19_OneEntryPerMember ==
    (view.op = "list" /\ view.error = "none") =>
        /\ Len(view.out) = Len(fs[mph_path].members)
        /\ \A k \in 1..Len(view.out) :
              LET m == fs[mph_path].members[k]
              IN  /\ view.out[k].filename = FileName(m)
                  /\ StrLen(m.data) <= 1023 =>
                        view.out[k].size = [unit |-> "B", n |-> StrLen(m.data)]
                  /\ StrLen(m.data) >= 1024 => view.out[k].size.unit = "KB"
                  /\ StrLen(m.data) = 1024 => view.out[k].size.n = 10

C19_Witness ==
    /\ view.op = "list"
    /\ Len(view.out) = 2
    /\ view.out[1].size = [unit |-> "KB", n |-> 10]
    /\ view.out[2].size = [unit |-> "B", n |-> 1023]

\* C20: the category of a member is fixed by the end of its name: .xml
\* Configuration, .json Metadata, .mphbin Simulation Data, .png Preview Image,
\* .txt Text Data, .zip Checkpoint, and Data for every other name.
Category ==
    [xml |-> "Configuration", json |-> "Metadata", mphbin |-> "Simulation Data",
     png |-> "Preview Image", txt |-> "Text Data", zip |-> "Checkpoint"]

C20_CategoryBySuffix ==
    view.op = "classify" =>
        LET n == view.arg
            known == Len(n) >= 2 /\ n[Len(n) - 1] = Dot /\ n[Len(n)] \in DOMAIN Category
        IN  view.out[1] = IF known THEN Category[n[Len(n)]] ELSE "Data"

C20_Witness ==
    /\ view.op = "classify"
    /\ view.arg = <<"x", Dot, "foo">>
    /\ view.out[1] = "Data"

\* the sizes of the members of the opened archive whose entry in the file
\* list has one of the given types, added up
RECURSIVE ListedSize(_, _, _)
ListedSize(ms, list, types) ==
    IF ms = <<>>
    THEN 0
    ELSE (IF Head(list).type \in types THEN StrLen(Head(ms).data) ELSE 0)
            + ListedSize(Tail(ms), Tail(list), types)

AllTypes == {_classify_file(n)[1] : n \in MemberNames}

InfoLoaded == view.op = "info" /\ view.out # <<>>

\* C21: in every model info returned, the text size is the sum over the
\* members the lister types Configuration, Metadata or Text Data, the binary
\* size the sum over those typed Simulation Data, the total the sum over all
\* members, and text size plus binary size is at most the total.
C21_SubtotalsWithinTotal ==
    InfoLoaded =>
        LET ms == fs[mph_path].members
            list == load_file_list(fs, mph_path)
            info == view.out[1]
        IN  /\ info.text_size = ListedSize(ms, list, {"Configuration", "Metadata", "Text Data"})
            /\ info.binary_size = ListedSize(ms, list, {"Simulation Data"})
            /\ info.total_size = ListedSize(ms, list, AllTypes)
            /\ info.text_size + info.binary_size <= info.total_size

C21_Witness ==
    /\ InfoLoaded
    /\ view.out[1].binary_size = 1280
    /\ view.out[1].text_size > 1023
    /\ view.out[1].total_size > view.out[1].text_size + view.out[1].binary_size

\* C22: load_model_info returns no value when the path holds no archive,
\* when the archive has no member fileversion or no member modelinfo.xml, and
\* when modelinfo.xml is not UTF-8 or not well-formed; in every other case it
\* returns the version with the white space at both ends removed, and the
\* title and the description of the root element, "N/A" standing for an
\* attribute the root element does not have.
HasAttr(text, key) == \E i \in 1..Len(text) : text[i] = key

Nothing ==
    \/ mph_path \notin DOMAIN fs
    \/ fs[mph_path].kind # "zip"
    \/ MembersNamed(fs[mph_path], FileVersionName) = {}
    \/ MembersNamed(fs[mph_path], ModelInfoName) = {}
    \/ LET text == ReadMember(fs[mph_path], ModelInfoName)
       IN  text[Len(text)] # SlashGT

C22_InfoOrNothing ==
    view.op = "info" =>
        IF Nothing
        THEN view.out = <<>>
        ELSE /\ Len(view.out) = 1
             /\ LET info == view.out[1]
                     version == info.version
                     raw == DecodeIgnore(ReadMember(fs[mph_path], FileVersionName))
                     text == ReadMember(fs[mph_path], ModelInfoName)
                 IN  /\ version # <<>> =>
                           /\ Head(version) \notin Whitespace
                           /\ version[Len(version)] \notin Whitespace
                     /\ \E i \in 0..Len(raw) :
                           /\ i + Len(version) <= Len(raw)
                           /\ SubSeq(raw, i + 1, i + Len(version)) = version
                           /\ \A k \in 1..Len(raw) :
                                 (k <= i \/ k > i + Len(version)) => raw[k] \in Whitespace
                     /\ info.title = IF HasAttr(text, KTitle) THEN "T" ELSE "N/A"
                     /\ info.description = IF HasAttr(text, KDescription) THEN "D" ELSE "N/A"

C22_Witness ==
    /\ view.op = "info"
    /\ Len(view.out) = 1
    /\ view.out[1].version = <<"6", Space, "1">>
    /\ view.out[1].title = "N/A"
    /\ view.out[1].description = "D"

\* C23: an export that succeeds has put every member of the archive under
\* <folder>/<stem>-extracted at its relative path (of members of one name the
\* last), returns that root, and returns as count the number of all entries
\* under the root, directories included; an export that fails returns the
\* count 0.
C23_ExportCountsEntries ==
    view.op = "export" =>
        IF view.out[1]
        THEN LET dest == [parent |-> ExtractDir, name |-> <<"x", "-extracted">>]
                 ms == fs[mph_path].members
             IN  /\ view.out[2] = dest
                 /\ dest \in DOMAIN fs
                 /\ fs[dest].kind = "dir"
                 /\ \A k \in 1..Len(ms) :
                       /\ ms[k].name \in DOMAIN fs[dest].tree
                       /\ (\A j \in (k + 1)..Len(ms) : ms[j].name # ms[k].name)
                             => fs[dest].tree[ms[k].name] = ms[k]
                 /\ view.out[3] = Cardinality({n \in DOMAIN fs[dest].tree : fs[dest].tree[n].dir})
                                    + Cardinality({n \in DOMAIN fs[dest].tree : ~fs[dest].tree[n].dir})
        ELSE view.out[3] = 0

C23_Witness ==
    /\ view.op = "export"
    /\ view.out[1]
    /\ view.out[3] = 3
    /\ <<"stale.txt">> \in DOMAIN fs[view.out[2]].tree
    /\ <<"geom", "g.mphbin">> \in DOMAIN fs[view.out[2]].tree
    /\ Len(fs[mph_path].members) = 1

\* the rows of the table carry the values the table was loaded with
ValuesAsLoaded ==
    /\ Len(param_tree) = Len(view.out)
    /\ \A i \in 1..Len(param_tree) : param_tree[i].values[2] = view.out[i].value

\* C24: when every edit made in the table gave its row the value the row
\* already had, and Save Changes has run to success, the dmodel.xml of the
\* modified container is the text of the original dmodel.xml.
C24_SameValueIsNoOp ==
    (OkDone /\ ValuesAsLoaded) =>
        DmodelData(fs[ret.new_mph]) = DmodelData(fs[mph_path])

\* C25: after edits in the table and a successful Save Changes, every
\* parameter whose row was not edited has in the modified container the value
\* it has in the original.
C25_UneditedKept ==
    OkDone =>
        LET after == load_parameters_from_mph(fs, ret.new_mph)
        IN  \A i \in 1..Len(param_tree) :
               ModifiedTag \notin param_tree[i].tags =>
                   /\ i <= Len(after)
                   /\ after[i].value = view.out[i].value

\* the expr values after the edits when an edit for a name reaches only the
\* declarations parse_parameters reads under that name
RECURSIVE DeclaredExprs(_, _, _)
DeclaredExprs(ds, es, edits) ==
    IF edits = <<>>
    THEN es
    ELSE DeclaredExprs(ds,
                       [i \in 1..Len(ds) |->
                           IF ds[i].name = Head(edits).name /\ ds[i].tag = LtExpressions
                              /\ ds[i].descr
                           THEN Head(edits).value ELSE es[i]],
                       Tail(edits))

\* C26: an edit for name n rewrites the expr only of the declarations
\* parse_parameters reads under the name n; an element of another tag, or one
\* without descr, that carries name="n" and expr keeps its text, as does
\* everything else.
C26_OnlyDeclarations ==
    (OkDone /\ round = 1) =>
        DmodelData(fs[ret.new_mph])
           = RenderFrom(decls, DeclaredExprs(decls, OrigExprs(decls), parameters), 1, linesep)

\* C27: after a second successful save of the same original with other
\* edits, the modified path holds one dmodel.xml, the original text with the
\* second edits alone applied to it, and the backup is the original.
C27_NotCumulative ==
    (OkDone /\ round = 2) =>
        /\ fs[mph_path] = Zip(<<FileMember(DmodelName, RenderDoc(decls, LF))>>)
        /\ fs[BackupPath(mph_path)] = fs[mph_path]
        /\ ret.new_mph = ModifiedPath(mph_path)
        /\ Len(fs[ret.new_mph].members) = 1
        /\ fs[ret.new_mph].members[1].name = DmodelName
        /\ fs[ret.new_mph].members[1].data
              = RenderFrom(decls, EditedExprs(decls, OrigExprs(decls), parameters), 1, linesep)

C27_Witness ==
    /\ OkDone
    /\ round = 2
    /\ DmodelData(fs0[ModifiedPath(mph_path)]) # DmodelData(fs[mph_path])
    /\ DmodelData(fs[ModifiedPath(mph_path)]) = DmodelData(fs[mph_path])
    /\ parameters # <<>>


\* ---------------------------------------------------------------------
\* the main window: project cards, the action buttons and Quick Run
\* ---------------------------------------------------------------------

MaxRuns == 2

\* what a scan of the projects folder can find
ScanResults == {{}, {"p1"}, {"p1", "p2"}}

Worker(kind, at) == [kind |-> kind, at |-> at]

At(t, at) == [workers EXCEPT ![t].at = at]

Running(kind) == {t \in DOMAIN workers : workers[t].kind = kind /\ workers[t].at \notin {"done", "failed"}}

enable_action_buttons == "normal"

disable_action_buttons == "disabled"

\* scan_projects: the cards are rebuilt and the selection is dropped; the
\* action buttons are left as they are
scan_projects(found) == [projects |-> found, selected_project |-> None]

\* Refresh, and Browse with a folder chosen (a cancelled dialog changes
\* nothing): both handlers end in scan_projects()
Rescan ==
    \E found \in ScanResults :
        /\ projects' = scan_projects(found).projects
        /\ selected_project' = scan_projects(found).selected_project
        /\ UNCHANGED <<action_buttons, mph_available, workers, after_queue,
                       load_btn, run_btn, export_btn, mph_client, current_model, succeeded>>
        /\ UNCHANGED fileVars

\* a click on a project card
SelectProject ==
    \E project_name \in projects :
        /\ selected_project' = project_name
        /\ action_buttons' = enable_action_buttons
        /\ UNCHANGED <<projects, mph_available, workers, after_queue,
                       load_btn, run_btn, export_btn, mph_client, current_model, succeeded>>
        /\ UNCHANGED fileVars

\* QuickRunFeature.run once check_mph_available() has answered: without mph
\* an error dialog and return, with mph the worker thread is started
QuickRunStarts(ok) == IF ok THEN Append(workers, Worker("quick", "running")) ELSE workers

\* a click on Quick Run: the button is clickable only while it is enabled
ClickQuickRun ==
    \E ok \in BOOLEAN :
        /\ action_buttons = "normal"
        /\ selected_project # None
        /\ ok => Len(workers) < MaxRuns
        /\ action_buttons' = disable_action_buttons
        /\ mph_available' = ok
        /\ workers' = QuickRunStarts(ok)
        /\ UNCHANGED <<projects, selected_project, after_queue,
                       load_btn, run_btn, export_btn, mph_client, current_model, succeeded>>
        /\ UNCHANGED fileVars

\* run_thread, the try block: every step went through, or one of them raised
RunThreadBody ==
    \E t \in Running("quick"), ok \in BOOLEAN :
        /\ workers[t].at = "running"
        /\ workers' = At(t, "finally")
        /\ after_queue' = after_queue \o <<"destroy", IF ok THEN "showinfo" ELSE "showerror">>
        /\ UNCHANGED <<projects, selected_project, action_buttons, mph_available,
                       load_btn, run_btn, export_btn, mph_client, current_model, succeeded>>
        /\ UNCHANGED fileVars

\* run_thread, the finally block
RunThreadFinally ==
    \E t \in Running("quick") :
        /\ workers[t].at = "finally"
        /\ workers' = At(t, "done")
        /\ after_queue' = Append(after_queue, "on_complete")
        /\ UNCHANGED <<projects, selected_project, action_buttons, mph_available,
                       load_btn, run_btn, export_btn, mph_client, current_model, succeeded>>
        /\ UNCHANGED fileVars

State(btn, callback, cb) == IF cb = callback THEN "normal" ELSE btn

\* the Tk main loop runs the oldest callback handed to root.after(0, ...)
AfterCallback ==
    /\ after_queue # <<>>
    /\ after_queue' = Tail(after_queue)
    /\ action_buttons' = State(action_buttons, "on_complete", Head(after_queue))
    /\ load_btn' = State(load_btn, "load_btn", Head(after_queue))
    /\ run_btn' = State(run_btn, "run_btn", Head(after_queue))
    /\ export_btn' = State(export_btn, "export_btn", Head(after_queue))
    /\ UNCHANGED <<projects, selected_project, mph_available, workers,
                   mph_client, current_model, succeeded>>
    /\ UNCHANGED fileVars

NextQuickRun ==
    \/ Rescan
    \/ SelectProject
    \/ ClickQuickRun
    \/ RunThreadBody
    \/ RunThreadFinally
    \/ AfterCallback

\* the windows after construction: the first scan has run, no thread has
\* been started, no file operation is under way
InitWindows ==
    /\ mph_path = PathOf(<<"x", Dot, "mph">>)
    /\ linesep = LF
    /\ decls = <<>>
    /\ fs = [p \in {mph_path} |-> Zip(<<>>)]
    /\ view = NoView
    /\ InitCommon

SpecQuickRun == InitWindows /\ [][NextQuickRun]_vars

\* the worker threads run on and the main loop serves its callbacks; nothing
\* obliges the user to click
SpecQuickRunFair ==
    /\ SpecQuickRun
    /\ WF_vars(RunThreadBody)
    /\ WF_vars(RunThreadFinally)
    /\ WF_vars(AfterCallback)

\* C28: every click on Quick Run that disables the action buttons is
\* eventually followed by the buttons being enabled again. The buttons are
\* disabled with a project selected exactly after such a click.
C28_ReEnabled ==
    (action_buttons = "disabled" /\ selected_project # None) ~> (action_buttons = "normal")

\* C29: while a Quick Run worker thread is running no second one is started
C29_OneRunAtATime == Cardinality(Running("quick")) <= 1


\* ---------------------------------------------------------------------
\* Advanced Mode: Connect, Load Parameters, Run, Export
\* ---------------------------------------------------------------------

MaxThreads == 4

Client == "client"

Model == "model"

\* what the except clauses of the three threads hand to the main loop
OnConnectFailed_enable == <<"load_btn", "showerror">>

OnConnectFailed == <<"showerror">>

OnLoadFailed == <<"showerror">>

OnRunFailed == <<"showerror">>

\* Connect is enabled from the start; every click starts a thread
ClickConnect ==
    /\ Len(workers) < MaxThreads
    /\ workers' = Append(workers, Worker("connect", "running"))
    /\ UNCHANGED <<projects, selected_project, action_buttons, mph_available, after_queue,
                   load_btn, run_btn, export_btn, mph_client, current_model, succeeded>>
    /\ UNCHANGED fileVars

\* connect_thread: mph.start() returns a client or raises
ConnectThread ==
    \E t \in Running("connect"), ok \in BOOLEAN :
        /\ workers' = At(t, IF ok THEN "done" ELSE "failed")
        /\ mph_client' = IF ok THEN Client ELSE mph_client
        /\ succeeded' = IF ok THEN succeeded \cup {"connect"} ELSE succeeded
        /\ after_queue' = after_queue \o (IF ok THEN <<"load_btn", "showinfo">> ELSE OnConnectFailed)
        /\ UNCHANGED <<projects, selected_project, action_buttons, mph_available,
                       load_btn, run_btn, export_btn, current_model>>
        /\ UNCHANGED fileVars

\* a click on Load Parameters; without a client the handler only warns
ClickLoad ==
    /\ load_btn = "normal"
    /\ mph_client # None
    /\ Len(workers) < MaxThreads
    /\ workers' = Append(workers, Worker("load", "running"))
    /\ UNCHANGED <<projects, selected_project, action_buttons, mph_available, after_queue,
                   load_btn, run_btn, export_btn, mph_client, current_model, succeeded>>
    /\ UNCHANGED fileVars

\* load_thread, line 205: mph_client.load(...) returns the model or raises
LoadThreadLoad ==
    \E t \in Running("load"), ok \in BOOLEAN :
        /\ workers[t].at = "running"
        /\ workers' = At(t, IF ok THEN "loaded" ELSE "failed")
        /\ current_model' = IF ok THEN Model ELSE current_model
        /\ succeeded' = IF ok THEN succeeded \cup {"load"} ELSE succeeded
        /\ after_queue' = after_queue \o (IF ok THEN <<>> ELSE OnLoadFailed)
        /\ UNCHANGED <<projects, selected_project, action_buttons, mph_available,
                       load_btn, run_btn, export_btn, mph_client>>
        /\ UNCHANGED fileVars

\* load_thread, lines 210-214: parameters() returns or raises
LoadThreadParameters ==
    \E t \in Running("load"), ok \in BOOLEAN :
        /\ workers[t].at = "loaded"
        /\ workers' = At(t, IF ok THEN "done" ELSE "failed")
        /\ succeeded' = IF ok THEN succeeded \cup {"parameters"} ELSE succeeded
        /\ after_queue' = after_queue \o
               (IF ok THEN <<"_display_parameters", "run_btn">> ELSE OnLoadFailed)
        /\ UNCHANGED <<projects, selected_project, action_buttons, mph_available,
                       load_btn, run_btn, export_btn, mph_client, current_model>>
        /\ UNCHANGED fileVars

\* a click on Run
ClickRun ==
    /\ run_btn = "normal"
    /\ current_model # None
    /\ Len(workers) < MaxThreads
    /\ workers' = Append(workers, Worker("run", "running"))
    /\ UNCHANGED <<projects, selected_project, action_buttons, mph_available, after_queue,
                   load_btn, run_btn, export_btn, mph_client, current_model, succeeded>>
    /\ UNCHANGED fileVars

\* run_thread, line 316: build() returns or raises
RunThreadBuild ==
    \E t \in Running("run"), ok \in BOOLEAN :
        /\ workers[t].at = "running"
        /\ workers' = At(t, IF ok THEN "built" ELSE "failed")
        /\ after_queue' = after_queue \o (IF ok THEN <<>> ELSE OnRunFailed)
        /\ UNCHANGED <<projects, selected_project, action_buttons, mph_available,
                       load_btn, run_btn, export_btn, mph_client, current_model, succeeded>>
        /\ UNCHANGED fileVars

\* run_thread, lines 317-322: solve() returns or raises
RunThreadSolve ==
    \E t \in Running("run"), ok \in BOOLEAN :
        /\ workers[t].at = "built"
        /\ workers' = At(t, IF ok THEN "done" ELSE "failed")
        /\ succeeded' = IF ok THEN succeeded \cup {"solve"} ELSE succeeded
        /\ after_queue' = after_queue \o (IF ok THEN <<"showinfo", "export_btn">> ELSE OnRunFailed)
        /\ UNCHANGED <<projects, selected_project, action_buttons, mph_available,
                       load_btn, run_btn, export_btn, mph_client, current_model>>
        /\ UNCHANGED fileVars

NextAdvanced ==
    \/ ClickConnect
    \/ ConnectThread
    \/ ClickLoad
    \/ LoadThreadLoad
    \/ LoadThreadParameters
    \/ ClickRun
    \/ RunThreadBuild
    \/ RunThreadSolve
    \/ AfterCallback

SpecAdvanced == InitWindows /\ [][NextAdvanced]_vars

Failed(kind) == \E t \in DOMAIN workers : workers[t].kind = kind /\ workers[t].at = "failed"

\* C30: in Advanced Mode Load Parameters is enabled only after a connection
\* succeeded, Run only after a model load (and the reading of its
\* parameters) succeeded, Export only after build and solve went through,
\* and never a later button before an earlier one
C30_WorkflowOrder ==
    /\ load_btn = "normal" => ("connect" \in succeeded /\ mph_client = Client)
    /\ run_btn = "normal" =>
           ({"load", "parameters"} \subseteq succeeded /\ current_model = Model /\ load_btn = "normal")
    /\ export_btn = "normal" => ("solve" \in succeeded /\ run_btn = "normal")

\* all three buttons enabled although a connect, a load and a run failed
C30_Witness ==
    /\ export_btn = "normal"
    /\ load_btn = "normal"
    /\ Failed("connect") \/ Failed("load") \/ Failed("run")

====
